---------------------------- MODULE Spec2Model ----------------------------
(***************************************************************************)
(* Model of the Chaikin curve animator (src/src/chaikin.rs), of its Point  *)
(* value type (src/src/point.rs) and of the input handler                  *)
(* (src/src/input.rs) as Canvas::update (src/src/canvas.rs) drives it      *)
(* frame by frame.                                                         *)
(*                                                                         *)
(* Numbers.  An f64 is modelled as a binary floating-point number with     *)
(* MantissaBits significant bits (an f64 has 53) and an unbounded exponent, *)
(* rounded to nearest, ties to even, after every operation, as IEEE 754    *)
(* arithmetic does.  NaN is modelled; infinities, overflow and subnormals  *)
(* are not.                                                                *)
(*                                                                         *)
(* Time.  std::time::Instant is opaque: the program only ever observes     *)
(* now.duration_since(last_update).  The model therefore keeps that        *)
(* duration, in ticks of 1/TicksPerSecond s, instead of two absolute       *)
(* instants.  Storing Instant::now() in last_update sets it to 0; an       *)
(* operation that leaves last_update alone leaves it unchanged.            *)
(*                                                                         *)
(* Panics.  An index out of range ends the program: the model records it   *)
(* in `panicked`, after which no frame is processed.                       *)
(***************************************************************************)
EXTENDS Integers, Sequences, FiniteSets, TLC

(***************************** bounds **************************************)
\* clock resolution of the model: ticks per second
TicksPerSecond == 2
\* longest stall of the host between two calls, in ticks
MaxStall == 3
\* longest control polyline handed to new / set_points
MaxPts == 2
\* the level-advance counter saturates here
MaxAdvances == 8
\* longest input of the apply_chaikin check
MaxRefineLen == 3
\* significant bits of a float of the model (an f64 has 53)
MantissaBits == 14
\* longest sequence handed to the interpolate check
MaxInterpLen == 4
\* the interpolate check draws t from 0, 1/InterpTSteps, .., 1
InterpTSteps == 2
\* most points held by the input handler in the picking check
MaxHandlerPts == 3
\* points drawn in the window, at most
MaxDrawn == 2

VARIABLES
    original_points,      \* Chaikin.original_points
    current_points,       \* Chaikin.current_points
    next_points,          \* Chaikin.next_points
    animation_progress,   \* Chaikin.animation_progress (f64)
    current_step,         \* Chaikin.current_step
    max_steps,            \* Chaikin.max_steps
    animation_speed,      \* Chaikin.animation_speed (f64)
    since_last_update,    \* now.duration_since(self.last_update), in ticks
    ret,                  \* the value returned by the last step() call
    last_call,            \* the last call made by the host, and what it saw
    advances,             \* level advances completed since the last reset
    refine_in,            \* argument of the apply_chaikin call under check
    refine_out,           \* its result
    refine_pc,            \* "idle" | "called" | "returned"
    interp_cur,           \* current_points of the interpolate call under check
    interp_next,          \* its next_points
    interp_t,             \* its animation_progress
    interp_out,           \* its result
    interp_pc,            \* "idle" | "called" | "returned"
    input_points,         \* InputHandler.points
    mouse_pos,            \* InputHandler.mouse_pos
    nearest_out,          \* result of the find_nearest_point call under check
    nearest_pc,           \* "idle" | "called" | "returned"
    mouse_down,           \* InputHandler.mouse_down
    is_animating,         \* InputHandler.is_animating
    should_close,         \* InputHandler.should_close
    dragging_point,       \* InputHandler.dragging_point
    message,              \* InputHandler.message
    key_cooldown,         \* InputHandler.key_cooldown
    panicked              \* an index into points was out of range

chaikin_vars == <<original_points, current_points, next_points,
                  animation_progress, current_step, max_steps,
                  animation_speed, since_last_update>>
refine_vars == <<refine_in, refine_out, refine_pc>>
interp_vars == <<interp_cur, interp_next, interp_t, interp_out, interp_pc>>
handler_vars == <<mouse_down, is_animating, should_close, dragging_point,
                  message, key_cooldown, panicked>>
input_vars == <<input_points, mouse_pos, nearest_out, nearest_pc,
                handler_vars>>
vars == <<original_points, current_points, next_points, animation_progress,
          current_step, max_steps, animation_speed, since_last_update,
          ret, last_call, advances, refine_in, refine_out, refine_pc,
          interp_cur, interp_next, interp_t, interp_out, interp_pc,
          input_points, mouse_pos, nearest_out, nearest_pc,
          mouse_down, is_animating, should_close, dragging_point,
          message, key_cooldown, panicked>>

(**************************** f64 arithmetic *******************************)
\* A float is <<m, e>>, the value m * 2^e, with m odd and |m| < 2^MantissaBits;
\* zero is <<0, 0>>.  Every operation computes the exact result and rounds it
\* to MantissaBits significant bits, to nearest, ties to even.
Abs(n) == IF n < 0 THEN -n ELSE n
Min(a, b) == IF a < b THEN a ELSE b

Zero == <<0, 0>>
One == <<1, 0>>
\* the result of 0.0 / 0.0
NaN == <<0, 1>>
IsNaN(a) == a = NaN

\* the number of bits of n >= 0, four bits at a time
RECURSIVE BitLen(_)
BitLen(n) ==
    IF n >= 16 THEN 4 + BitLen(n \div 16)
    ELSE IF n >= 8 THEN 4
    ELSE IF n >= 4 THEN 3
    ELSE IF n >= 2 THEN 2
    ELSE n

\* m * 2^e with m # 0, written with an odd m
RECURSIVE Canon(_, _)
Canon(m, e) == IF m % 2 = 0 THEN Canon(m \div 2, e + 1) ELSE <<m, e>>

\* significands are below this
MantissaLimit == 2 ^ MantissaBits

\* the float nearest to m * 2^e
Fl(m, e) ==
    IF m = 0 THEN Zero
    ELSE IF m < MantissaLimit /\ -m < MantissaLimit THEN Canon(m, e)
    ELSE LET a == Abs(m)
             k == BitLen(a) - MantissaBits
         IN  IF k <= 0 THEN Canon(m, e)
             ELSE LET q == a \div (2 ^ k)
                      r == a % (2 ^ k)
                      half == 2 ^ (k - 1)
                      up == r > half \/ (r = half /\ q % 2 = 1)
                      q2 == IF up THEN q + 1 ELSE q
                  IN  Canon(IF m < 0 THEN -q2 ELSE q2, e + k)

\* an integer as f64
F(n) == Fl(n, 0)

RNeg(a) == <<-a[1], a[2]>>

\* An operand below a quarter of the last place of the other one does not
\* change the rounded sum; otherwise the operands are aligned and added.
RAdd(a, b) ==
    IF IsNaN(a) \/ IsNaN(b) THEN NaN
    ELSE IF a[1] = 0 THEN b
    ELSE IF b[1] = 0 THEN a
    ELSE IF a[2] = b[2] THEN Fl(a[1] + b[1], a[2])
    ELSE LET ta == a[2] + BitLen(Abs(a[1]))
             tb == b[2] + BitLen(Abs(b[1]))
             e == Min(a[2], b[2])
         IN  IF tb <= ta - MantissaBits - 2 THEN a
             ELSE IF ta <= tb - MantissaBits - 2 THEN b
             ELSE Fl(a[1] * (2 ^ (a[2] - e)) + b[1] * (2 ^ (b[2] - e)), e)

RSub(a, b) == IF IsNaN(a) \/ IsNaN(b) THEN NaN ELSE RAdd(a, RNeg(b))

RMul(a, b) ==
    IF IsNaN(a) \/ IsNaN(b) THEN NaN
    ELSE Fl(a[1] * b[1], a[2] + b[2])

\* a / b; the code divides by zero only as 0.0 / 0.0, which is NaN.  The
\* quotient of the significands is developed to at least MantissaBits + 1
\* bits and a sticky bit for the remainder, then rounded.
RDiv(a, b) ==
    IF IsNaN(a) \/ IsNaN(b) \/ b[1] = 0 THEN NaN
    ELSE IF a[1] = 0 THEN Zero
    ELSE LET la == BitLen(Abs(a[1]))
             lb == BitLen(Abs(b[1]))
             num == Abs(a[1]) * (2 ^ (2 * MantissaBits + 1 - la))
             den == Abs(b[1]) * (2 ^ (MantissaBits - lb))
             q == num \div den
             mant == 2 * q + (IF num % den # 0 THEN 1 ELSE 0)
             neg == (a[1] < 0) # (b[1] < 0)
         IN  Fl(IF neg THEN -mant ELSE mant,
                a[2] - b[2] + la - lb - MantissaBits - 2)

\* the literal or quotient n / d as f64
Rat(n, d) == RDiv(F(n), F(d))

\* comparisons are false when an operand is NaN
RGt(a, b) == ~IsNaN(a) /\ ~IsNaN(b) /\ RAdd(a, RNeg(b))[1] > 0
RGe(a, b) == ~IsNaN(a) /\ ~IsNaN(b) /\ RAdd(a, RNeg(b))[1] >= 0
\* f64::floor followed by `as usize`, for a >= 0
RLt(a, b) == RGt(b, a)

\* square root digit by digit: the bit pairs hi, hi-1, .., lo of m (pairs
\* below 0 are 0) are brought down one at a time; acc is <<root, remainder>>
RECURSIVE SqrtBits(_, _, _, _)
SqrtBits(m, hi, lo, acc) ==
    IF hi < lo THEN acc
    ELSE LET pair == IF hi >= 0 THEN (m \div (4 ^ hi)) % 4 ELSE 0
             r == 4 * acc[2] + pair
             trial == 4 * acc[1] + 1
         IN  IF r >= trial
             THEN SqrtBits(m, hi - 1, lo, <<2 * acc[1] + 1, r - trial>>)
             ELSE SqrtBits(m, hi - 1, lo, <<2 * acc[1], r>>)

\* f64::sqrt, correctly rounded
RSqrt(a) ==
    IF IsNaN(a) \/ a[1] < 0 THEN NaN
    ELSE IF a[1] = 0 THEN Zero
    ELSE LET odd == a[2] % 2 # 0
             m == IF odd THEN 2 * a[1] ELSE a[1]
             e == IF odd THEN a[2] - 1 ELSE a[2]
             pairs == (BitLen(m) + 1) \div 2
             extra == IF MantissaBits + 2 > pairs
                      THEN MantissaBits + 2 - pairs ELSE 0
             res == SqrtBits(m, pairs - 1, -extra, <<0, 0>>)
             mant == 2 * res[1] + (IF res[2] # 0 THEN 1 ELSE 0)
         IN  Fl(mant, (e \div 2) - extra - 1)

\* f64::MAX: above every distance of the model
F64Max == <<2 ^ MantissaBits - 1, 971>>

RFloor(a) ==
    IF a[2] >= 0 THEN a[1] * (2 ^ a[2])
    ELSE IF -a[2] > 30 THEN 0
    ELSE a[1] \div (2 ^ (-a[2]))

(******************************* Point *************************************)
White == <<255, 255, 255>>
Red == <<255, 0, 0>>
Green == <<0, 255, 0>>
Blue == <<0, 0, 255>>

PointNew(x, y) == [position |-> <<x, y>>, color |-> White]
PointWithColor(x, y, color) == [position |-> <<x, y>>, color |-> color]

Positions(points) == [i \in 1..Len(points) |-> points[i].position]

\* all sequences over S of length 0..n
SeqsUpTo(S, n) == UNION {[1..k -> S] : k \in 0..n}


(******************************* Chaikin ***********************************)
\* the literals 0.25 and 0.75
Quarter == Rat(1, 4)
ThreeQuarters == Rat(3, 4)

\* mutant: the start is not subtracted from the target
Lerp_no_subtract(a, b, t) == RAdd(a, RMul(t, b))

\* mutant: the interpolation runs from the target to the start
Lerp_from_target(a, b, t) == RAdd(b, RMul(t, RSub(a, b)))

\* a + t * (b - a), the interpolation expression of the code
Lerp(a, b, t) == RAdd(a, RMul(t, RSub(b, a)))

LerpPos(p, q, t) == <<Lerp(p[1], q[1], t), Lerp(p[2], q[2], t)>>

\* mutant: the Q and R weights exchanged
apply_chaikin_swapped(points) ==
    IF Len(points) < 2 THEN points
    ELSE LET n == Len(points)
             Cut(i, w0, w1) ==
                 LET p0 == points[i].position
                     p1 == points[i + 1].position
                 IN  [position |->
                          <<RAdd(RMul(w0, p0[1]), RMul(w1, p1[1])),
                            RAdd(RMul(w0, p0[2]), RMul(w1, p1[2]))>>,
                      color |-> White]
         IN  [k \in 1..(2 * n) |->
                 IF k = 1 THEN points[1]
                 ELSE IF k = 2 * n THEN points[n]
                 ELSE IF k % 2 = 0 THEN Cut(k \div 2, Quarter, ThreeQuarters)
                 ELSE Cut(k \div 2, ThreeQuarters, Quarter)]

\* mutant: the last point is not pushed
apply_chaikin_no_last(points) ==
    IF Len(points) < 2 THEN points
    ELSE LET n == Len(points)
             Cut(i, w0, w1) ==
                 LET p0 == points[i].position
                     p1 == points[i + 1].position
                 IN  [position |->
                          <<RAdd(RMul(w0, p0[1]), RMul(w1, p1[1])),
                            RAdd(RMul(w0, p0[2]), RMul(w1, p1[2]))>>,
                      color |-> White]
         IN  [k \in 1..(2 * n - 1) |->
                 IF k = 1 THEN points[1]
                 ELSE IF k % 2 = 0 THEN Cut(k \div 2, ThreeQuarters, Quarter)
                 ELSE Cut(k \div 2, Quarter, ThreeQuarters)]

\* mutant: the early return only for the empty input
apply_chaikin_guard_empty(points) ==
    IF Len(points) < 1 THEN points
    ELSE LET n == Len(points)
             Cut(i, w0, w1) ==
                 LET p0 == points[i].position
                     p1 == points[i + 1].position
                 IN  [position |->
                          <<RAdd(RMul(w0, p0[1]), RMul(w1, p1[1])),
                            RAdd(RMul(w0, p0[2]), RMul(w1, p1[2]))>>,
                      color |-> White]
         IN  [k \in 1..(2 * n) |->
                 IF k = 1 THEN points[1]
                 ELSE IF k = 2 * n THEN points[n]
                 ELSE IF k % 2 = 0 THEN Cut(k \div 2, ThreeQuarters, Quarter)
                 ELSE Cut(k \div 2, Quarter, ThreeQuarters)]

\* mutant: the polyline is closed by a segment from the last point to the first
apply_chaikin_wraparound(points) ==
    IF Len(points) < 2 THEN points
    ELSE LET n == Len(points)
             Cut(i, w0, w1) ==
                 LET p0 == points[i].position
                     p1 == points[(i % n) + 1].position
                 IN  [position |->
                          <<RAdd(RMul(w0, p0[1]), RMul(w1, p1[1])),
                            RAdd(RMul(w0, p0[2]), RMul(w1, p1[2]))>>,
                      color |-> White]
         IN  [k \in 1..(2 * n + 2) |->
                 IF k = 1 THEN points[1]
                 ELSE IF k = 2 * n + 2 THEN points[n]
                 ELSE IF k % 2 = 0 THEN Cut(k \div 2, ThreeQuarters, Quarter)
                 ELSE Cut(k \div 2, Quarter, ThreeQuarters)]

\* Chaikin::apply_chaikin.  The result vector is built by push: points[0],
\* then for each segment i (here 1-based) its Q point and its R point, then
\* the last point.  Element k of the result (1-based) is therefore the first
\* point for k = 1, the last point for k = 2n, Q of segment k/2 for even k
\* and R of segment (k-1)/2 for odd k.
apply_chaikin(points) ==
    IF Len(points) < 2 THEN points
    ELSE LET n == Len(points)
             Cut(i, w0, w1) ==
                 LET p0 == points[i].position
                     p1 == points[i + 1].position
                 IN  [position |->
                          <<RAdd(RMul(w0, p0[1]), RMul(w1, p1[1])),
                            RAdd(RMul(w0, p0[2]), RMul(w1, p1[2]))>>,
                      color |-> White]
         IN  [k \in 1..(2 * n) |->
                 IF k = 1 THEN points[1]
                 ELSE IF k = 2 * n THEN points[n]
                 ELSE IF k % 2 = 0 THEN Cut(k \div 2, ThreeQuarters, Quarter)
                 ELSE Cut(k \div 2, Quarter, ThreeQuarters)]

\* In interpolate_different_point_counts, dense is the longer of the two
\* sequences, sparse the shorter, and i the code's 0-based loop index.
\* pos: the normalized position of i, i as f64 / (dense_len - 1) as f64
norm_pos(i, dense_len) == RDiv(F(i), F(dense_len - 1))

\* curr_idx / next_idx: (pos * (sparse_len - 1) as f64).floor() as usize
nearest_idx(i, dense_len, sparse_len) ==
    RFloor(RMul(norm_pos(i, dense_len), F(sparse_len - 1)))

\* mutant: the second bracket index is not clamped
nearest_idx2_unclamped(i, dense_len, sparse_len) ==
    nearest_idx(i, dense_len, sparse_len) + 1

\* curr_idx2 / next_idx2: (idx + 1).min(sparse_len - 1)
nearest_idx2(i, dense_len, sparse_len) ==
    Min(nearest_idx(i, dense_len, sparse_len) + 1, sparse_len - 1)

\* curr_pos, curr_pos2 / next_pos, next_pos2: the normalized position of a
\* bracket index, idx as f64 / (sparse_len - 1) as f64
bracket_pos(idx, sparse_len) == RDiv(F(idx), F(sparse_len - 1))

\* the test that guards the local factor: pos2 > pos1
bracket_open(idx, idx2, sparse_len) ==
    RGt(bracket_pos(idx2, sparse_len), bracket_pos(idx, sparse_len))

\* mutant: the local factor is computed without the guard
local_t_unguarded(pos, idx, idx2, sparse_len) ==
    LET pos1 == bracket_pos(idx, sparse_len)
        pos2 == bracket_pos(idx2, sparse_len)
    IN  RDiv(RSub(pos, pos1), RSub(pos2, pos1))

\* mutant: the bracket's first point is taken as it is
local_t_bracket_start(pos, idx, idx2, sparse_len) == Zero

\* local_t: where pos lies within the bracket idx, idx2 of the sparser side
local_t(pos, idx, idx2, sparse_len) ==
    LET pos1 == bracket_pos(idx, sparse_len)
        pos2 == bracket_pos(idx2, sparse_len)
    IN  IF RGt(pos2, pos1)
        THEN RDiv(RSub(pos, pos1), RSub(pos2, pos1))
        ELSE Zero

\* the divisors of the f64 divisions performed for index i, in program order
virtual_divisors(i, dense_len, sparse_len) ==
    LET idx == nearest_idx(i, dense_len, sparse_len)
        idx2 == nearest_idx2(i, dense_len, sparse_len)
    IN  <<F(dense_len - 1), F(sparse_len - 1), F(sparse_len - 1)>>
        \o (IF bracket_open(idx, idx2, sparse_len)
            THEN <<RSub(bracket_pos(idx2, sparse_len),
                        bracket_pos(idx, sparse_len))>>
            ELSE <<>>)

\* target / source: the virtual point of `sparse` at the normalized position
\* of i
virtual_point(i, dense_len, sparse) ==
    LET idx == nearest_idx(i, dense_len, Len(sparse))
        idx2 == nearest_idx2(i, dense_len, Len(sparse))
    IN  LerpPos(sparse[idx + 1].position, sparse[idx2 + 1].position,
                local_t(norm_pos(i, dense_len), idx, idx2, Len(sparse)))

\* mutant: the last point is taken at one index on both sides
interpolate_different_point_counts_same_last(cur, nxt, t) ==
    LET curr_len == Len(cur)
        next_len == Len(nxt)
        first == [position |-> LerpPos(cur[1].position, nxt[1].position, t),
                  color |-> White]
        last == [position |-> LerpPos(cur[Min(curr_len, next_len)].position,
                                      nxt[Min(curr_len, next_len)].position,
                                      t),
                 color |-> White]
        middle ==
            IF curr_len > next_len
            THEN [i \in 1..(curr_len - 2) |->
                    [position |-> LerpPos(cur[i + 1].position,
                                          virtual_point(i, curr_len, nxt), t),
                     color |-> White]]
            ELSE [i \in 1..(next_len - 2) |->
                    [position |-> LerpPos(virtual_point(i, next_len, cur),
                                          nxt[i + 1].position, t),
                     color |-> White]]
    IN  <<first>> \o middle \o <<last>>

\* mutant: both loops run over the current points' count
interpolate_different_point_counts_current_count(cur, nxt, t) ==
    LET curr_len == Len(cur)
        next_len == Len(nxt)
        first == [position |-> LerpPos(cur[1].position, nxt[1].position, t),
                  color |-> White]
        last == [position |-> LerpPos(cur[curr_len].position,
                                      nxt[next_len].position, t),
                 color |-> White]
        middle ==
            IF curr_len > next_len
            THEN [i \in 1..(curr_len - 2) |->
                    [position |-> LerpPos(cur[i + 1].position,
                                          virtual_point(i, curr_len, nxt), t),
                     color |-> White]]
            ELSE [i \in 1..(curr_len - 2) |->
                    [position |-> LerpPos(virtual_point(i, next_len, cur),
                                          nxt[i + 1].position, t),
                     color |-> White]]
    IN  <<first>> \o middle \o <<last>>

\* Chaikin::interpolate_different_point_counts
interpolate_different_point_counts(cur, nxt, t) ==
    LET curr_len == Len(cur)
        next_len == Len(nxt)
        first == [position |-> LerpPos(cur[1].position, nxt[1].position, t),
                  color |-> White]
        last == [position |-> LerpPos(cur[curr_len].position,
                                      nxt[next_len].position, t),
                 color |-> White]
        middle ==
            IF curr_len > next_len
            THEN [i \in 1..(curr_len - 2) |->
                    [position |-> LerpPos(cur[i + 1].position,
                                          virtual_point(i, curr_len, nxt), t),
                     color |-> White]]
            ELSE [i \in 1..(next_len - 2) |->
                    [position |-> LerpPos(virtual_point(i, next_len, cur),
                                          nxt[i + 1].position, t),
                     color |-> White]]
    IN  <<first>> \o middle \o <<last>>

\* mutant: with an empty side there is nothing to show
interpolate_empty_result(cur, nxt, t) ==
    IF Len(cur) = 0 \/ Len(nxt) = 0 THEN <<>>
    ELSE IF Len(cur) # Len(nxt)
         THEN interpolate_different_point_counts(cur, nxt, t)
    ELSE [i \in 1..Len(cur) |->
            [position |-> LerpPos(cur[i].position, nxt[i].position, t),
             color |-> cur[i].color]]

\* mutant: the equal-length path interpolates from next to current
interpolate_backwards(cur, nxt, t) ==
    IF Len(cur) = 0 THEN nxt
    ELSE IF Len(nxt) = 0 THEN cur
    ELSE IF Len(cur) # Len(nxt)
         THEN interpolate_different_point_counts(cur, nxt, t)
    ELSE [i \in 1..Len(cur) |->
            [position |-> LerpPos(nxt[i].position, cur[i].position, t),
             color |-> cur[i].color]]

\* Chaikin::interpolate, on self.current_points and self.next_points
interpolate(cur, nxt, t) ==
    IF Len(cur) = 0 THEN nxt
    ELSE IF Len(nxt) = 0 THEN cur
    ELSE IF Len(cur) # Len(nxt)
         THEN interpolate_different_point_counts(cur, nxt, t)
    ELSE [i \in 1..Len(cur) |->
            [position |-> LerpPos(cur[i].position, nxt[i].position, t),
             color |-> cur[i].color]]

\* mutant: the points keep their own tags
create_visualization_keep_tags(orig, points) ==
    [i \in 1..Len(orig) |->
        PointWithColor(orig[i].position[1], orig[i].position[2],
                       orig[i].color)]
    \o [i \in 1..Len(points) |->
        PointWithColor(points[i].position[1], points[i].position[2],
                       points[i].color)]

\* Chaikin::create_visualization
create_visualization(orig, points) ==
    [i \in 1..Len(orig) |->
        PointWithColor(orig[i].position[1], orig[i].position[2], Red)]
    \o [i \in 1..Len(points) |->
        PointWithColor(points[i].position[1], points[i].position[2], Green)]

(**************************** InputHandler *********************************)
\* get_mouse_pos gave no position
NoMouse == <<>>

\* Option<usize>
None == [some |-> FALSE, idx |-> 0]
Some(i) == [some |-> TRUE, idx |-> i]

\* the picking radius of find_nearest_point
threshold == F(20)

\* mutant: a point at the radius itself is picked
within_threshold_inclusive(dist) == ~RGt(dist, threshold)

\* dist < threshold
within_threshold(dist) == RLt(dist, threshold)

\* the distance of a point of the handler to the mouse position
distance(pt, mouse) ==
    LET dx == RSub(pt[1], mouse[1])
        dy == RSub(pt[2], mouse[2])
    IN  RSqrt(RAdd(RMul(dx, dx), RMul(dy, dy)))

\* the loop of find_nearest_point from the i-th point (1-based) on
RECURSIVE nearest_loop(_, _, _, _, _)
nearest_loop(pts, mouse, i, closest_idx, closest_dist) ==
    IF i > Len(pts) THEN closest_idx
    ELSE LET dist == distance(pts[i], mouse)
         IN  IF RLt(dist, closest_dist) /\ within_threshold(dist)
             THEN nearest_loop(pts, mouse, i + 1, Some(i - 1), dist)
             ELSE nearest_loop(pts, mouse, i + 1, closest_idx, closest_dist)

\* InputHandler::find_nearest_point, on self.points and self.mouse_pos
find_nearest_point(pts, mouse) == nearest_loop(pts, mouse, 1, None, F64Max)

\* Option<String>
NoMessage == <<>>
SomeMessage(text) == <<text>>

\* the text shown when Enter is pressed with no point drawn
DrawFirst == "Please draw control points first!\nPress Enter to continue"

\* the frames a key press is ignored for after Enter or Space was taken
KeyCooldown == 20

\* the fields of InputHandler::new, and no panic
InputHandlerNew ==
    /\ mouse_down = FALSE
    /\ is_animating = FALSE
    /\ should_close = FALSE
    /\ dragging_point = None
    /\ message = NoMessage
    /\ key_cooldown = 0
    /\ panicked = FALSE

\* the InputHandler as a value
Handler ==
    [points |-> input_points, mouse_down |-> mouse_down,
     mouse_pos |-> mouse_pos, is_animating |-> is_animating,
     should_close |-> should_close, dragging_point |-> dragging_point,
     message |-> message, key_cooldown |-> key_cooldown,
     panicked |-> panicked]

\* mutant: Enter starts the animation with no point drawn
start_animation_unconditional(points, animating) == TRUE

\* the Enter branch: is_animating is set when a point exists
start_animation(points, animating) ==
    IF Len(points) = 0 THEN animating ELSE TRUE

\* self.points[idx] = self.mouse_pos: an index out of range panics
set_point(self, idx) ==
    IF idx < Len(self.points)
    THEN [self EXCEPT !.points[idx + 1] = self.mouse_pos]
    ELSE [self EXCEPT !.panicked = TRUE]

\* InputHandler::add_point
add_point(self, pos) == [self EXCEPT !.points = Append(self.points, pos)]

\* the key handling of handle_input: Escape, else Enter, else Space
handle_keys(self, keys) ==
    IF "Escape" \in keys
    THEN [self EXCEPT !.should_close = TRUE]
    ELSE IF "Enter" \in keys /\ self.key_cooldown = 0
    THEN [self EXCEPT
            !.message = IF Len(self.points) = 0
                        THEN SomeMessage(DrawFirst)
                        ELSE self.message,
            !.is_animating = start_animation(self.points, self.is_animating),
            !.key_cooldown = KeyCooldown]
    ELSE IF "Space" \in keys /\ self.key_cooldown = 0
    THEN [self EXCEPT !.points = <<>>,
                      !.is_animating = FALSE,
                      !.key_cooldown = KeyCooldown]
    ELSE self

\* the button is held and no point is dragged yet: the nearest point, if
\* there is one, becomes the dragged point and moves to the mouse
pick_up(self, nearest) ==
    IF nearest.some
    THEN set_point([self EXCEPT !.dragging_point = nearest], nearest.idx)
    ELSE self

\* the point dragging of handle_input
handle_drag(self, was_mouse_down) ==
    IF self.mouse_down
    THEN IF self.dragging_point.some
         THEN set_point(self, self.dragging_point.idx)
         ELSE IF was_mouse_down
         THEN pick_up(self, find_nearest_point(self.points, self.mouse_pos))
         ELSE IF ~self.is_animating
         THEN add_point(self, self.mouse_pos)
         ELSE self
    ELSE [self EXCEPT !.dragging_point = None]

\* the last block of handle_input: Enter dismisses the message
dismiss_message(self, keys) ==
    IF self.panicked THEN self
    ELSE IF "Enter" \in keys /\ self.message # NoMessage
                             /\ self.key_cooldown = 0
    THEN [self EXCEPT !.message = NoMessage, !.key_cooldown = KeyCooldown]
    ELSE self

\* InputHandler::handle_input, on what the window reports this frame: the
\* mouse position (NoMouse outside the window), the left button, the keys
\* held down.  A panic ends the handler where it happens.
handle_input(self, mouse, down, keys) ==
    LET polled == [self EXCEPT
                     !.mouse_pos = IF mouse = NoMouse THEN self.mouse_pos
                                   ELSE mouse,
                     !.mouse_down = down,
                     !.key_cooldown = IF self.key_cooldown > 0
                                      THEN self.key_cooldown - 1
                                      ELSE 0]
    IN  dismiss_message(handle_drag(handle_keys(polled, keys),
                                    self.mouse_down), keys)

\* the part of Canvas::update that reads the handler after handle_input:
\* the dragged point is looked up, and Enter clears a shown message
canvas_update(self, keys) ==
    IF self.panicked THEN self
    ELSE IF self.dragging_point.some
            /\ self.dragging_point.idx >= Len(self.points)
    THEN [self EXCEPT !.panicked = TRUE]
    ELSE IF self.message # NoMessage /\ "Enter" \in keys
    THEN [self EXCEPT !.message = NoMessage]
    ELSE self

(****************************** inputs *************************************)
\* the control points the host hands over: Point::new gives the neutral tag,
\* Point::with_color an explicit one
PointPool == {PointNew(F(0), F(0)), PointWithColor(F(10), F(10), Blue)}
PointInputs == SeqsUpTo(PointPool, MaxPts)

NoCall == [op |-> "none", points |-> <<>>, reset |-> FALSE, prev_step |-> 0]

(****************************** operations *********************************)
\* mutant: the current points are not seeded
NewEmptyCurrent(points) ==
    /\ original_points = points
    /\ current_points = <<>>
    /\ next_points = <<>>
    /\ animation_progress = Zero
    /\ current_step = 0
    /\ max_steps = 7
    /\ since_last_update = 0
    /\ animation_speed = One

\* Chaikin::new: the state after construction
New(points) ==
    /\ original_points = points
    /\ current_points = points
    /\ next_points = <<>>
    /\ animation_progress = Zero
    /\ current_step = 0
    /\ max_steps = 7
    /\ since_last_update = 0
    /\ animation_speed = One

\* mutant: no comparison with the current original
points_differ_always(orig, points) == TRUE

\* the test of set_points: self.original_points != points (structural)
points_differ(orig, points) == orig # points

\* mutant: the reset forgets current_step
SetPointsKeepStep(points) ==
    /\ IF points_differ(original_points, points)
       THEN /\ original_points' = points
            /\ current_points' = points
            /\ next_points' = <<>>
            /\ animation_progress' = Zero
            /\ current_step' = current_step
            /\ since_last_update' = 0
            /\ advances' = 0
       ELSE UNCHANGED <<original_points, current_points, next_points,
                        animation_progress, current_step, since_last_update,
                        advances>>
    /\ last_call' = [op |-> "set_points", points |-> points,
                     reset |-> points_differ(original_points, points),
                     prev_step |-> current_step]
    /\ UNCHANGED <<max_steps, animation_speed, ret, refine_vars, interp_vars,
                   input_vars>>

\* Chaikin::set_points
SetPoints(points) ==
    /\ IF points_differ(original_points, points)
       THEN /\ original_points' = points
            /\ current_points' = points
            /\ next_points' = <<>>
            /\ animation_progress' = Zero
            /\ current_step' = 0
            /\ since_last_update' = 0
            /\ advances' = 0
       ELSE UNCHANGED <<original_points, current_points, next_points,
                        animation_progress, current_step, since_last_update,
                        advances>>
    /\ last_call' = [op |-> "set_points", points |-> points,
                     reset |-> points_differ(original_points, points),
                     prev_step |-> current_step]
    /\ UNCHANGED <<max_steps, animation_speed, ret, refine_vars, interp_vars,
                   input_vars>>

\* mutant: only the empty polyline is left alone
too_few_points_empty_only(orig) == Len(orig) < 1

\* the early return of step: self.original_points.len() < 2
too_few_points(orig) == Len(orig) < 2

\* mutant: no time is seen to pass between two calls
delta_time_frozen == Zero

\* now.duration_since(self.last_update).as_secs_f64()
delta_time == Rat(since_last_update, TicksPerSecond)

\* mutant: the level counter does not wrap
next_step_no_wrap(step, max) == step + 1

\* mutant: the level counter wraps one level late
next_step_late_wrap(step, max) == (step + 1) % (max + 1)

\* (self.current_step + 1) % self.max_steps
next_step(step, max) == (step + 1) % max

\* mutant: the middle levels refine the original polyline again
compute_next_from_original(step, max, orig, cur) ==
    IF step = 0
    THEN IF Len(orig) >= 2 THEN apply_chaikin(orig) ELSE orig
    ELSE IF step = max - 1 THEN orig
    ELSE apply_chaikin(orig)

\* mutant: the last level refines once more instead of returning
compute_next_no_wrap(step, max, orig, cur) ==
    IF step = 0
    THEN IF Len(orig) >= 2 THEN apply_chaikin(orig) ELSE orig
    ELSE apply_chaikin(cur)

\* mutant: the middle levels keep the current points as the next ones
compute_next_hold(step, max, orig, cur) ==
    IF step = 0
    THEN IF Len(orig) >= 2 THEN apply_chaikin(orig) ELSE orig
    ELSE IF step = max - 1 THEN orig
    ELSE cur

\* mutant: level 0 animates towards the unrefined polyline
compute_next_no_refine(step, max, orig, cur) ==
    IF step = 0 \/ step = max - 1 THEN orig ELSE apply_chaikin(cur)

\* the next points of a level, computed when next_points is empty
compute_next(step, max, orig, cur) ==
    IF step = 0
    THEN IF Len(orig) >= 2 THEN apply_chaikin(orig) ELSE orig
    ELSE IF step = max - 1 THEN orig
    ELSE apply_chaikin(cur)

\* mutant: a level advance does not move next into current
StepKeepCurrent ==
    /\ refine_pc = "idle"
    /\ last_call' = [op |-> "step", points |-> <<>>, reset |-> FALSE,
                     prev_step |-> current_step]
    /\ IF too_few_points(original_points)
       THEN /\ ret' = original_points
            /\ UNCHANGED <<chaikin_vars, advances>>
       ELSE LET progress1 == RAdd(animation_progress,
                                  RMul(delta_time, animation_speed))
                completed == RGe(progress1, One)
                progress2 == IF completed THEN Zero ELSE progress1
                step2 == IF completed
                         THEN next_step(current_step, max_steps)
                         ELSE current_step
                current2 == current_points
                next2 == IF completed THEN <<>> ELSE next_points
                current3 == IF Len(next2) = 0 /\ step2 = 0
                            THEN original_points
                            ELSE current2
                next3 == IF Len(next2) = 0
                         THEN compute_next(step2, max_steps, original_points,
                                           current2)
                         ELSE next2
                result == interpolate(current3, next3, progress2)
            IN  /\ since_last_update' = 0
                /\ animation_progress' = progress2
                /\ current_step' = step2
                /\ current_points' = current3
                /\ next_points' = next3
                /\ ret' = create_visualization(original_points, result)
                /\ advances' = IF completed
                               THEN Min(advances + 1, MaxAdvances)
                               ELSE advances
                /\ UNCHANGED <<original_points, max_steps, animation_speed>>
    /\ UNCHANGED <<refine_vars, interp_vars, input_vars>>

\* mutant: a level is completed only when progress exceeds 1.0
StepStrictCompletion ==
    /\ refine_pc = "idle"
    /\ last_call' = [op |-> "step", points |-> <<>>, reset |-> FALSE,
                     prev_step |-> current_step]
    /\ IF too_few_points(original_points)
       THEN /\ ret' = original_points
            /\ UNCHANGED <<chaikin_vars, advances>>
       ELSE LET progress1 == RAdd(animation_progress,
                                  RMul(delta_time, animation_speed))
                completed == RGt(progress1, One)
                progress2 == IF completed THEN Zero ELSE progress1
                step2 == IF completed
                         THEN next_step(current_step, max_steps)
                         ELSE current_step
                current2 == IF completed THEN next_points ELSE current_points
                next2 == IF completed THEN <<>> ELSE next_points
                current3 == IF Len(next2) = 0 /\ step2 = 0
                            THEN original_points
                            ELSE current2
                next3 == IF Len(next2) = 0
                         THEN compute_next(step2, max_steps, original_points,
                                           current2)
                         ELSE next2
                result == interpolate(current3, next3, progress2)
            IN  /\ since_last_update' = 0
                /\ animation_progress' = progress2
                /\ current_step' = step2
                /\ current_points' = current3
                /\ next_points' = next3
                /\ ret' = create_visualization(original_points, result)
                /\ advances' = IF completed
                               THEN Min(advances + 1, MaxAdvances)
                               ELSE advances
                /\ UNCHANGED <<original_points, max_steps, animation_speed>>
    /\ UNCHANGED <<refine_vars, interp_vars, input_vars>>

\* mutant: the control points are tagged in place
StepTagsOriginal ==
    /\ refine_pc = "idle"
    /\ last_call' = [op |-> "step", points |-> <<>>, reset |-> FALSE,
                     prev_step |-> current_step]
    /\ IF too_few_points(original_points)
       THEN /\ ret' = original_points
            /\ UNCHANGED <<chaikin_vars, advances>>
       ELSE LET progress1 == RAdd(animation_progress,
                                  RMul(delta_time, animation_speed))
                completed == RGe(progress1, One)
                progress2 == IF completed THEN Zero ELSE progress1
                step2 == IF completed
                         THEN next_step(current_step, max_steps)
                         ELSE current_step
                current2 == IF completed THEN next_points ELSE current_points
                next2 == IF completed THEN <<>> ELSE next_points
                current3 == IF Len(next2) = 0 /\ step2 = 0
                            THEN original_points
                            ELSE current2
                next3 == IF Len(next2) = 0
                         THEN compute_next(step2, max_steps, original_points,
                                           current2)
                         ELSE next2
                result == interpolate(current3, next3, progress2)
            IN  /\ since_last_update' = 0
                /\ animation_progress' = progress2
                /\ current_step' = step2
                /\ current_points' = current3
                /\ next_points' = next3
                /\ ret' = create_visualization(original_points, result)
                /\ advances' = IF completed
                               THEN Min(advances + 1, MaxAdvances)
                               ELSE advances
                /\ original_points' = [i \in 1..Len(original_points) |->
                                          [original_points[i]
                                              EXCEPT !.color = Red]]
                /\ UNCHANGED <<max_steps, animation_speed>>
    /\ UNCHANGED <<refine_vars, interp_vars, input_vars>>

\* mutant: progress in excess of 1.0 is carried into further levels
StepCarriesExcess ==
    /\ refine_pc = "idle"
    /\ last_call' = [op |-> "step", points |-> <<>>, reset |-> FALSE,
                     prev_step |-> current_step]
    /\ IF too_few_points(original_points)
       THEN /\ ret' = original_points
            /\ UNCHANGED <<chaikin_vars, advances>>
       ELSE LET progress1 == RAdd(animation_progress,
                                  RMul(delta_time, animation_speed))
                completed == RGe(progress1, One)
                progress2 == IF completed THEN Zero ELSE progress1
                step2 == IF completed
                         THEN (current_step + RFloor(progress1)) % max_steps
                         ELSE current_step
                current2 == IF completed THEN next_points ELSE current_points
                next2 == IF completed THEN <<>> ELSE next_points
                current3 == IF Len(next2) = 0 /\ step2 = 0
                            THEN original_points
                            ELSE current2
                next3 == IF Len(next2) = 0
                         THEN compute_next(step2, max_steps, original_points,
                                           current2)
                         ELSE next2
                result == interpolate(current3, next3, progress2)
            IN  /\ since_last_update' = 0
                /\ animation_progress' = progress2
                /\ current_step' = step2
                /\ current_points' = current3
                /\ next_points' = next3
                /\ ret' = create_visualization(original_points, result)
                /\ advances' = IF completed
                               THEN Min(advances + 1, MaxAdvances)
                               ELSE advances
                /\ UNCHANGED <<original_points, max_steps, animation_speed>>
    /\ UNCHANGED <<refine_vars, interp_vars, input_vars>>

\* Chaikin::step
Step ==
    /\ refine_pc = "idle"
    /\ last_call' = [op |-> "step", points |-> <<>>, reset |-> FALSE,
                     prev_step |-> current_step]
    /\ IF too_few_points(original_points)
       THEN /\ ret' = original_points
            /\ UNCHANGED <<chaikin_vars, advances>>
       ELSE LET progress1 == RAdd(animation_progress,
                                  RMul(delta_time, animation_speed))
                completed == RGe(progress1, One)
                progress2 == IF completed THEN Zero ELSE progress1
                step2 == IF completed
                         THEN next_step(current_step, max_steps)
                         ELSE current_step
                current2 == IF completed THEN next_points ELSE current_points
                next2 == IF completed THEN <<>> ELSE next_points
                current3 == IF Len(next2) = 0 /\ step2 = 0
                            THEN original_points
                            ELSE current2
                next3 == IF Len(next2) = 0
                         THEN compute_next(step2, max_steps, original_points,
                                           current2)
                         ELSE next2
                result == interpolate(current3, next3, progress2)
            IN  /\ since_last_update' = 0
                /\ animation_progress' = progress2
                /\ current_step' = step2
                /\ current_points' = current3
                /\ next_points' = next3
                /\ ret' = create_visualization(original_points, result)
                /\ advances' = IF completed
                               THEN Min(advances + 1, MaxAdvances)
                               ELSE advances
                /\ UNCHANGED <<original_points, max_steps, animation_speed>>
    /\ UNCHANGED <<refine_vars, interp_vars, input_vars>>

\* the host's set_points call, with any polyline
HostSetPoints ==
    /\ refine_pc = "idle"
    /\ \E points \in PointInputs : SetPoints(points)

\* time passes between two calls
Tick ==
    /\ refine_pc = "idle"
    /\ since_last_update < MaxStall
    /\ since_last_update' = since_last_update + 1
    /\ UNCHANGED <<original_points, current_points, next_points,
                   animation_progress, current_step, max_steps,
                   animation_speed, ret, last_call, advances, refine_vars,
                   interp_vars, input_vars>>

\* no apply_chaikin call is under check
RefineIdle ==
    /\ refine_in = <<>>
    /\ refine_out = <<>>
    /\ refine_pc = "idle"

\* no interpolate call is under check
InterpIdle ==
    /\ interp_cur = <<>>
    /\ interp_next = <<>>
    /\ interp_t = Zero
    /\ interp_out = <<>>
    /\ interp_pc = "idle"

\* InputHandler::new, and no find_nearest_point call under check
InputIdle ==
    /\ input_points = <<>>
    /\ mouse_pos = <<Zero, Zero>>
    /\ nearest_out = None
    /\ nearest_pc = "idle"
    /\ InputHandlerNew

Init ==
    /\ \E points \in PointInputs :
          /\ New(points)
          /\ last_call = [NoCall EXCEPT !.op = "new", !.points = points]
    /\ ret = <<>>
    /\ advances = 0
    /\ RefineIdle
    /\ InterpIdle
    /\ InputIdle

Next == Step \/ HostSetPoints \/ Tick

Spec == Init /\ [][Next]_vars

(******************** the animation driven for ever ************************)
\* step() called after some time has passed: at least one tick
StepAfterDelay ==
    /\ since_last_update >= 1
    /\ Step

\* the host's set_points call of every frame, with the points unchanged
HostSamePoints ==
    /\ refine_pc = "idle"
    /\ SetPoints(original_points)

NextLive == StepAfterDelay \/ HostSamePoints \/ Tick

\* the delayed call can be made: the clock has moved since the last one
StepPossible ==
    /\ refine_pc = "idle"
    /\ since_last_update >= 1

\* the host keeps calling step(): weak fairness of StepAfterDelay, with the
\* states where the call can be made written out as StepPossible
StepFairness ==
    []<>(~StepPossible) \/ []<><<StepAfterDelay>>_vars

\* time keeps passing and the host keeps calling step()
SpecLive ==
    Init /\ [][NextLive]_vars /\ WF_vars(Tick) /\ StepFairness

(********************* apply_chaikin as a function *************************)
RefinePool ==
    {PointNew(F(0), F(0)), PointNew(F(10), F(10)),
     PointWithColor(F(4), F(8), Blue), PointNew(F(-3), Rat(5, 2))}
RefineInputs == SeqsUpTo(RefinePool, MaxRefineLen)

InitRefine ==
    /\ New(<<>>)
    /\ ret = <<>>
    /\ last_call = [NoCall EXCEPT !.op = "new"]
    /\ advances = 0
    /\ refine_in \in RefineInputs
    /\ refine_out = <<>>
    /\ refine_pc = "called"
    /\ InterpIdle
    /\ InputIdle

RefineReturn ==
    /\ refine_pc = "called"
    /\ refine_out' = apply_chaikin(refine_in)
    /\ refine_pc' = "returned"
    /\ UNCHANGED <<chaikin_vars, ret, last_call, advances, refine_in,
                   interp_vars, input_vars>>

NextRefine == RefineReturn

SpecRefine == InitRefine /\ [][NextRefine]_vars

(********************** interpolate as a function **************************)
InterpPool ==
    {PointNew(F(10), F(10)), PointWithColor(F(611), Rat(1, 10), Blue)}
InterpInputs == SeqsUpTo(InterpPool, MaxInterpLen)
\* the progress values 0, 1/InterpTSteps, .., 1
InterpProgress == {Rat(k, InterpTSteps) : k \in 0..InterpTSteps}

InitInterp ==
    /\ New(<<>>)
    /\ ret = <<>>
    /\ last_call = [NoCall EXCEPT !.op = "new"]
    /\ advances = 0
    /\ RefineIdle
    /\ interp_cur \in InterpInputs
    /\ interp_next \in InterpInputs
    /\ interp_t \in InterpProgress
    /\ interp_out = <<>>
    /\ interp_pc = "called"
    /\ InputIdle

InterpReturn ==
    /\ interp_pc = "called"
    /\ interp_out' = interpolate(interp_cur, interp_next, interp_t)
    /\ interp_pc' = "returned"
    /\ UNCHANGED <<chaikin_vars, ret, last_call, advances, refine_vars,
                   interp_cur, interp_next, interp_t, input_vars>>

NextInterp == InterpReturn

SpecInterp == InitInterp /\ [][NextInterp]_vars

(****************** find_nearest_point as a function ***********************)
HandlerPool ==
    {<<F(10), F(10)>>, <<F(12), F(12)>>, <<F(31), F(11)>>, <<F(50), F(50)>>}
HandlerInputs == SeqsUpTo(HandlerPool, MaxHandlerPts)
MousePool == {<<F(11), F(11)>>, <<F(30), F(10)>>}

InitNearest ==
    /\ New(<<>>)
    /\ ret = <<>>
    /\ last_call = [NoCall EXCEPT !.op = "new"]
    /\ advances = 0
    /\ RefineIdle
    /\ InterpIdle
    /\ input_points \in HandlerInputs
    /\ mouse_pos \in MousePool
    /\ nearest_out = None
    /\ nearest_pc = "called"
    /\ InputHandlerNew

NearestReturn ==
    /\ nearest_pc = "called"
    /\ nearest_out' = find_nearest_point(input_points, mouse_pos)
    /\ nearest_pc' = "returned"
    /\ UNCHANGED <<chaikin_vars, ret, last_call, advances, refine_vars,
                   interp_vars, input_points, mouse_pos, handler_vars>>

NextNearest == NearestReturn

SpecNearest == InitNearest /\ [][NextNearest]_vars

(********************** InputHandler frame by frame ************************)
\* what the window reports in a frame
FrameMouse == MousePool \cup {NoMouse}
FrameKeys == SUBSET {"Escape", "Enter", "Space"}

\* the handler's fields take the values of h, with at most MaxDrawn points
HandlerBecomes(h) ==
    /\ Len(h.points) <= MaxDrawn
    /\ input_points' = h.points
    /\ mouse_pos' = h.mouse_pos
    /\ mouse_down' = h.mouse_down
    /\ is_animating' = h.is_animating
    /\ should_close' = h.should_close
    /\ dragging_point' = h.dragging_point
    /\ message' = h.message
    /\ key_cooldown' = h.key_cooldown
    /\ panicked' = h.panicked

\* the main loop runs while the handler does not ask to close, and a panic
\* ends the program
Running == ~should_close /\ ~panicked

\* one frame: Canvas::update calls handle_input and then reads the handler
Update ==
    /\ Running
    /\ \E mouse \in FrameMouse, down \in BOOLEAN, keys \in FrameKeys :
          HandlerBecomes(canvas_update(
              handle_input(Handler, mouse, down, keys), keys))
    /\ UNCHANGED <<chaikin_vars, ret, last_call, advances, refine_vars,
                   interp_vars, nearest_out, nearest_pc>>

\* add_point called from outside handle_input
HostAddPoint ==
    /\ Running
    /\ \E pos \in MousePool : HandlerBecomes(add_point(Handler, pos))
    /\ UNCHANGED <<chaikin_vars, ret, last_call, advances, refine_vars,
                   interp_vars, nearest_out, nearest_pc>>

InitInput ==
    /\ New(<<>>)
    /\ ret = <<>>
    /\ last_call = [NoCall EXCEPT !.op = "new"]
    /\ advances = 0
    /\ RefineIdle
    /\ InterpIdle
    /\ InputIdle

NextInput == Update \/ HostAddPoint

SpecInput == InitInput /\ [][NextInput]_vars

(******************************* claims ************************************)
AnimatorFields == <<original_points, current_points, next_points,
                    animation_progress, current_step, since_last_update>>

RECURSIVE RefineN(_, _)
RefineN(points, k) ==
    IF k = 0 THEN points ELSE apply_chaikin(RefineN(points, k - 1))

\* C1: after exactly max_steps (7) completed level advances since the
\* animator was fresh (new, or a set_points that reset it), current equals
\* original and step is 0.
Thm_C1 ==
    advances = 7 => (current_points = original_points /\ current_step = 0)

Witness_C1 ==
    /\ advances = 7
    /\ last_call.op = "step"
    /\ Len(original_points) >= 2
    /\ Len(next_points) = 2 * Len(original_points)

\* C2: after every step() call on a polyline of at least 2 points, whatever
\* time elapsed before it, the positions of current are those of refine
\* applied `step` times to original.
Claim_C2 ==
    (last_call.op = "step" /\ Len(original_points) >= 2)
        => Positions(current_points)
               = Positions(RefineN(original_points, current_step))

\* C3: set_points with points structurally equal to original is a no-op:
\* original, current, next, progress, step and the last-tick timestamp are
\* left unchanged.
Thm_C3 ==
    [][\A points \in PointInputs :
          (SetPoints(points) /\ points = original_points)
              => UNCHANGED AnimatorFields]_vars

Witness_C3 ==
    /\ last_call.op = "set_points"
    /\ ~last_call.reset
    /\ last_call.points = original_points
    /\ current_step > 0
    /\ RGt(animation_progress, Zero)
    /\ Len(next_points) > 0
    /\ since_last_update > 0

\* C4: set_points with points different from original is a full reset:
\* afterwards original = current = the new points, next is empty, progress is
\* 0, step is 0 and the last-tick timestamp is restarted.
Thm_C4 ==
    [][\A points \in PointInputs :
          (SetPoints(points) /\ points # original_points)
              => /\ original_points' = points
                 /\ current_points' = points
                 /\ next_points' = <<>>
                 /\ animation_progress' = Zero
                 /\ current_step' = 0
                 /\ since_last_update' = 0]_vars

Witness_C4 ==
    /\ last_call.op = "set_points"
    /\ last_call.reset
    /\ last_call.prev_step > 0
    /\ Len(last_call.points) >= 2
    /\ original_points = last_call.points
    /\ current_step = 0

\* C5: Chaikin::new(points) yields original = current = points, next empty,
\* progress 0, step 0 and max_steps 7.
Thm_C5 ==
    last_call.op = "new"
        => /\ original_points = last_call.points
           /\ current_points = last_call.points
           /\ next_points = <<>>
           /\ animation_progress = Zero
           /\ current_step = 0
           /\ max_steps = 7

Witness_C5 ==
    /\ last_call.op = "new"
    /\ Len(last_call.points) = 2
    /\ last_call.points[1] # last_call.points[2]

\* C6: for an input of length n >= 2, apply_chaikin returns 2*(n-1)+2 points
\* whose first and last positions are the input's first and last positions.
Thm_C6 ==
    (refine_pc = "returned" /\ Len(refine_in) >= 2)
        => /\ Len(refine_out) = 2 * (Len(refine_in) - 1) + 2
           /\ refine_out[1].position = refine_in[1].position
           /\ refine_out[Len(refine_out)].position
                  = refine_in[Len(refine_in)].position

Witness_C6 ==
    /\ refine_pc = "returned"
    /\ Len(refine_in) = 3
    /\ refine_in[1].position # refine_in[3].position

\* C7: for an input of length 0 or 1, apply_chaikin returns the input
\* unchanged: same points, same order, same tags.
Thm_C7 ==
    (refine_pc = "returned" /\ Len(refine_in) < 2) => refine_out = refine_in

Witness_C7 ==
    /\ refine_pc = "returned"
    /\ Len(refine_in) = 1
    /\ refine_in[1].color = Blue

Scenario_C8 == <<PointNew(F(0), F(0)), PointNew(F(10), F(10))>>

Thm_C9 ==
    [][(Step /\ Len(original_points) < 2)
          => (ret' = original_points /\ UNCHANGED AnimatorFields)]_vars

Witness_C9 ==
    /\ last_call.op = "step"
    /\ Len(original_points) = 1
    /\ ret = original_points
    /\ since_last_update = MaxStall

\* C10: for a polyline of at least 2 points, step() returns original's
\* positions in order, all tagged red, followed by the interpolated points
\* in curve order, all tagged green, and nothing else.
Thm_C10 ==
    (last_call.op = "step" /\ Len(original_points) >= 2)
        => LET n == Len(original_points)
               curve == interpolate(current_points, next_points,
                                    animation_progress)
           IN  /\ Len(ret) = n + Len(curve)
               /\ \A i \in 1..n :
                     ret[i] = [position |-> original_points[i].position,
                               color |-> Red]
               /\ \A j \in 1..Len(curve) :
                     ret[n + j] = [position |-> curve[j].position,
                                   color |-> Green]

Witness_C10 ==
    /\ last_call.op = "step"
    /\ Len(original_points) >= 2
    /\ current_step = 6
    /\ RGt(animation_progress, Zero)
    /\ Len(current_points) > Len(next_points)
    /\ Len(ret) = Len(original_points) + Len(current_points)
    /\ original_points[1].color = White

Max(a, b) == IF a > b THEN a ELSE b

\* the interpolate call under check has returned
InterpReturned == interp_pc = "returned"
\* both of its sequences are non-empty and of different lengths
InterpUnequal ==
    /\ Len(interp_cur) > 0
    /\ Len(interp_next) > 0
    /\ Len(interp_cur) # Len(interp_next)
\* both of its sequences are non-empty and of one length
InterpEqual == Len(interp_cur) > 0 /\ Len(interp_cur) = Len(interp_next)

\* C11: interpolating a non-empty sequence A towards itself (current = next
\* = A) returns exactly A's positions, in order and of A's length, at every
\* progress t in [0,1].
Thm_C11 ==
    (InterpReturned /\ Len(interp_cur) > 0 /\ interp_next = interp_cur)
        => Positions(interp_out) = Positions(interp_cur)

Witness_C11 ==
    /\ InterpReturned
    /\ interp_next = interp_cur
    /\ Len(interp_cur) = 3
    /\ interp_cur[2].position # interp_cur[1].position
    /\ interp_t = Rat(1, 2)
    /\ Positions(interp_out) = Positions(interp_cur)

\* C12: at t = 0 interpolate reproduces the positions of current: every
\* position when the lengths are equal, the first and the last position
\* when they differ.
Thm_C12 ==
    (InterpReturned /\ interp_t = Zero)
        => /\ InterpEqual => Positions(interp_out) = Positions(interp_cur)
           /\ InterpUnequal =>
                 /\ interp_out[1].position = interp_cur[1].position
                 /\ interp_out[Len(interp_out)].position
                        = interp_cur[Len(interp_cur)].position

Witness_C12 ==
    /\ InterpReturned
    /\ interp_t = Zero
    /\ InterpUnequal
    /\ interp_cur[1].position # interp_next[1].position
    /\ interp_cur[Len(interp_cur)].position
           # interp_next[Len(interp_next)].position
    /\ interp_out[1].position = interp_cur[1].position

\* C13: at t = 1 the first and the last output position of interpolate
\* equal the first and the last position of next exactly, for any non-empty
\* current and next.
Claim_C13 ==
    (/\ InterpReturned
     /\ interp_t = One
     /\ Len(interp_cur) > 0
     /\ Len(interp_next) > 0)
        => /\ interp_out[1].position = interp_next[1].position
           /\ interp_out[Len(interp_out)].position
                  = interp_next[Len(interp_next)].position

\* C14: in unequal-length interpolation the first output position is
\* from[0] + t*(to[0] - from[0]) and the last one is from[last] +
\* t*(to[last] - from[last]), each sequence at its own last index, for every
\* t and whichever side is denser.
Thm_C14 ==
    (InterpReturned /\ InterpUnequal)
        => /\ interp_out[1].position
                  = LerpPos(interp_cur[1].position, interp_next[1].position,
                            interp_t)
           /\ interp_out[Len(interp_out)].position
                  = LerpPos(interp_cur[Len(interp_cur)].position,
                            interp_next[Len(interp_next)].position, interp_t)

Witness_C14 ==
    /\ InterpReturned
    /\ Len(interp_cur) = 2
    /\ Len(interp_next) = 4
    /\ interp_t = Rat(1, 2)
    /\ interp_cur[2].position # interp_next[2].position
    /\ interp_cur[2].position # interp_next[4].position
    /\ interp_out[4].position # interp_cur[2].position
    /\ interp_out[4].position # interp_next[4].position

\* C15: the output of unequal-length interpolation has max(from.len(),
\* to.len()) points, also when the sparser side has one point.
Thm_C15 ==
    (InterpReturned /\ InterpUnequal)
        => Len(interp_out) = Max(Len(interp_cur), Len(interp_next))

Witness_C15 ==
    /\ InterpReturned
    /\ Len(interp_cur) = 1
    /\ Len(interp_next) = 4
    /\ Len(interp_out) = 4

\* C16: unequal-length interpolation never indexes out of range: for every
\* interior index i of the denser side (length Ld), the bracket indices
\* floor(i/(Ld-1) * (Ls-1)) and min(that + 1, Ls-1) lie in 0..Ls-1 of the
\* sparser side (length Ls), and i lies within the denser side.
Thm_C16 ==
    (interp_pc # "idle" /\ InterpUnequal)
        => LET dense_len == Max(Len(interp_cur), Len(interp_next))
               sparse_len == Min(Len(interp_cur), Len(interp_next))
           IN  \A i \in 1..(dense_len - 2) :
                  /\ i \in 0..(dense_len - 1)
                  /\ nearest_idx(i, dense_len, sparse_len)
                         \in 0..(sparse_len - 1)
                  /\ nearest_idx2(i, dense_len, sparse_len)
                         \in 0..(sparse_len - 1)

Witness_C16 ==
    /\ InterpReturned
    /\ Len(interp_cur) = 4
    /\ Len(interp_next) = 1
    /\ nearest_idx2(2, 4, 1) = 0
    /\ Len(interp_out) = 4

\* C17: with equal lengths the output has that length and its i-th position
\* is current[i] + t*(next[i] - current[i]).
Thm_C17 ==
    (InterpReturned /\ InterpEqual)
        => /\ Len(interp_out) = Len(interp_cur)
           /\ \A i \in 1..Len(interp_cur) :
                 interp_out[i].position
                    = LerpPos(interp_cur[i].position,
                              interp_next[i].position, interp_t)

Witness_C17 ==
    /\ InterpReturned
    /\ Len(interp_cur) = 3
    /\ Len(interp_next) = 3
    /\ interp_t = Rat(1, 2)
    /\ interp_cur[2].position # interp_next[2].position
    /\ interp_out[2].position # interp_cur[2].position
    /\ interp_out[2].position # interp_next[2].position

\* the exact squared Euclidean distance of two points with integer coordinates
Dist2(p, q) ==
    (RFloor(p[1]) - RFloor(q[1])) * (RFloor(p[1]) - RFloor(q[1]))
    + (RFloor(p[2]) - RFloor(q[2])) * (RFloor(p[2]) - RFloor(q[2]))

\* C18: find_nearest_point returns Some(i) for the index i of the smallest
\* Euclidean distance to the mouse position among the points at a distance
\* strictly below 20 (the lowest index on ties), and None when no point is
\* within 20, in particular when there are no points.
Thm_C18 ==
    nearest_pc = "returned"
        => LET d(i) == Dist2(input_points[i], mouse_pos)
               near == {i \in 1..Len(input_points) : d(i) < 20 * 20}
           IN  IF near = {} THEN nearest_out = None
               ELSE \E i \in near :
                       /\ nearest_out = Some(i - 1)
                       /\ \A j \in near :
                             d(j) > d(i) \/ (d(j) = d(i) /\ j >= i)

Witness_C18 ==
    /\ nearest_pc = "returned"
    /\ mouse_pos = <<F(11), F(11)>>
    /\ input_points = << <<F(31), F(11)>>, <<F(12), F(12)>>,
                         <<F(10), F(10)>> >>
    /\ nearest_out = Some(1)

\* C19: in a step() call on a polyline of at least 2 points in which the
\* accumulated progress reaches 1.0 or more, progress is reset to 0, step
\* becomes (step + 1) mod 7 and current takes the value next had before the
\* call; in a call in which progress stays below 1.0, step and current are
\* unchanged, except that at step 0 current is set to original again.
Thm_C19 ==
    [][(Step /\ Len(original_points) >= 2)
          => LET progress == RAdd(animation_progress,
                                  RMul(delta_time, animation_speed))
             IN  IF RGe(progress, One)
                 THEN /\ animation_progress' = Zero
                      /\ current_step' = (current_step + 1) % 7
                      /\ current_points' = next_points
                 ELSE /\ current_step' = current_step
                      /\ \/ current_points' = current_points
                         \/ /\ current_step = 0
                            /\ current_points' = original_points]_vars

Witness_C19 ==
    /\ last_call.op = "step"
    /\ last_call.prev_step = 2
    /\ current_step = 3
    /\ animation_progress = Zero
    /\ Len(original_points) = 2
    /\ Len(current_points) = 16
    /\ Len(next_points) = 32

\* C20: after every step() call that ends with step = 0 on a polyline of at
\* least 2 points, current equals original and next equals
\* apply_chaikin(original).
Thm_C20 ==
    (last_call.op = "step" /\ Len(original_points) >= 2 /\ current_step = 0)
        => /\ current_points = original_points
           /\ next_points = apply_chaikin(original_points)

Witness_C20 ==
    /\ last_call.op = "step"
    /\ last_call.prev_step = 6
    /\ current_step = 0
    /\ Len(original_points) = 2
    /\ original_points[1] # original_points[2]
    /\ current_points = original_points
    /\ Len(next_points) = 4

\* the last call was step() on a polyline of at least 2 points
AfterStep == last_call.op = "step" /\ Len(original_points) >= 2

\* C21: after every step() call that ends with 0 < step < max_steps - 1,
\* next equals apply_chaikin(current).
Thm_C21 ==
    (AfterStep /\ 0 < current_step /\ current_step < max_steps - 1)
        => next_points = apply_chaikin(current_points)

Witness_C21 ==
    /\ AfterStep
    /\ current_step = 2
    /\ RGt(animation_progress, Zero)
    /\ Len(current_points) = 8
    /\ Len(next_points) = 16
    /\ current_points[1] # current_points[8]

\* C22: after every step() call that ends with step = max_steps - 1 (6),
\* next equals original, so that the level advance that follows returns the
\* animation to the original polyline.
Thm_C22 ==
    [][(AfterStep /\ current_step = max_steps - 1)
          => /\ current_step = 6
             /\ next_points = original_points
             /\ (Step /\ current_step' # current_step)
                   => (current_step' = 0
                       /\ current_points' = original_points)]_vars

Witness_C22 ==
    /\ AfterStep
    /\ last_call.prev_step = 5
    /\ current_step = 6
    /\ Len(original_points) = 2
    /\ original_points[1] # original_points[2]
    /\ Len(current_points) = 128
    /\ next_points = original_points

\* C23: along any run of step() calls on a polyline of at least 2 points,
\* current and next differ in length only at step = max_steps - 1; at every
\* other level the equal-length path of interpolate is taken.
Claim_C23 ==
    (AfterStep /\ Len(current_points) # Len(next_points))
        => current_step = max_steps - 1

\* C23, amended: after every step() call on a polyline of at least 2 points
\* current and next differ in length at every level at which current is not
\* empty: at the levels 0..5 next has twice as many points as current, at
\* level 6 it has as many as original.  They are of one length only when
\* both are empty, so step() never takes the equal-length path.
Thm_C23 ==
    AfterStep
        => /\ Len(current_points) = Len(next_points)
                 => (Len(current_points) = 0 /\ Len(next_points) = 0)
           /\ (Len(current_points) > 0 /\ current_step < max_steps - 1)
                 => Len(next_points) = 2 * Len(current_points)
           /\ current_step = max_steps - 1
                 => Len(next_points) = Len(original_points)

Witness_C23 ==
    /\ AfterStep
    /\ current_step = 0
    /\ RGt(animation_progress, Zero)
    /\ Len(current_points) = 2
    /\ Len(next_points) = 4
    /\ Len(ret) = Len(original_points) + 4

\* C24: progress is in [0,1) between calls: in the initial state, after
\* every set_points and after every step() call, whatever the elapsed time,
\* 0 <= progress < 1; and it is exactly 0 right after a step() call that
\* crossed a level boundary.
Thm_C24 ==
    /\ RGe(animation_progress, Zero)
    /\ RLt(animation_progress, One)
    /\ (AfterStep /\ last_call.prev_step # current_step)
          => animation_progress = Zero

Witness_C24 ==
    /\ AfterStep
    /\ last_call.prev_step = 3
    /\ current_step = 4
    /\ animation_progress = Zero
    /\ since_last_update = 0
    /\ advances >= 4

\* C25: in every reachable state step is in 0..max_steps - 1 and max_steps
\* is 7: no sequence of new, set_points and step() calls changes max_steps
\* or drives step outside 0..6.
Thm_C25 ==
    /\ max_steps = 7
    /\ current_step \in 0..(max_steps - 1)
    /\ current_step \in 0..6

Witness_C25 ==
    /\ AfterStep
    /\ last_call.prev_step = 6
    /\ current_step = 0
    /\ advances = 7
    /\ max_steps = 7

\* C26: original changes only through set_points: no step() call, in any
\* state and for any elapsed time, modifies original (its length, positions,
\* order or tags).  A transition after which the last call is step() is a
\* step() call, or the passing of time after one.
Thm_C26 ==
    [][last_call'.op = "step" => original_points' = original_points]_vars

Witness_C26 ==
    /\ AfterStep
    /\ current_step = 6
    /\ Len(original_points) = 2
    /\ original_points[1].color = White
    /\ original_points[2].color = Blue
    /\ ret[1].color = Red
    /\ ret[2].color = Red
    /\ ret[2].position = original_points[2].position

\* w0*p + w1*q on positions, as the code evaluates it
Blend(w0, p, w1, q) ==
    <<RAdd(RMul(w0, p[1]), RMul(w1, q[1])),
      RAdd(RMul(w0, p[2]), RMul(w1, q[2]))>>

RAbs(a) == <<Abs(a[1]), a[2]>>

\* the largest magnitude of the c-th coordinate among the points of the
\* interpolate call under check
CoordScale(c) ==
    LET S == {RAbs(interp_cur[i].position[c]) : i \in 1..Len(interp_cur)}
             \cup {RAbs(interp_next[i].position[c]) :
                       i \in 1..Len(interp_next)}
    IN  CHOOSE m \in S : \A n \in S : RGe(m, n)

\* the positions p and q agree up to the rounding of the f64 operations:
\* each coordinate within 2^(2 - MantissaBits) of the largest magnitude of
\* that coordinate in the input (at most 4 units in its last place)
Close(p, q) ==
    \A c \in 1..2 :
        RGe(RMul(CoordScale(c), <<1, 2 - MantissaBits>>),
            RAbs(RSub(p[c], q[c])))

\* C28: in unequal-length interpolation with a sparser sequence S of length
\* Ls >= 2, for each interior index i of the denser sequence (length Ld),
\* with k = floor(i*(Ls-1)/(Ld-1)) and f = i*(Ls-1)/(Ld-1) - k, the virtual
\* point is V = S[k] + f*(S[k+1] - S[k]); the output is from[i] + t*(V -
\* from[i]) when from is denser and V + t*(to[i] - V) when to is denser (up
\* to the rounding of the operations).  In particular, for from of 2 points,
\* to of 4 points and t = 0.5, each interior output is the midpoint of to[i]
\* and the point of the from segment at fraction i/3.
Thm_C28 ==
    (/\ InterpReturned
     /\ InterpUnequal
     /\ Min(Len(interp_cur), Len(interp_next)) >= 2)
        => LET from_denser == Len(interp_cur) > Len(interp_next)
               dense_len == Max(Len(interp_cur), Len(interp_next))
               sparse == IF from_denser THEN interp_next ELSE interp_cur
               x(i) == RDiv(RMul(F(i), F(Len(sparse) - 1)), F(dense_len - 1))
               k(i) == RFloor(x(i))
               f(i) == RSub(x(i), F(k(i)))
               V(i) == LerpPos(sparse[k(i) + 1].position,
                               sparse[k(i) + 2].position, f(i))
               Mid(p, q) == <<RDiv(RAdd(p[1], q[1]), F(2)),
                              RDiv(RAdd(p[2], q[2]), F(2))>>
           IN  \A i \in 1..(dense_len - 2) :
                  /\ Close(virtual_point(i, dense_len, sparse), V(i))
                  /\ Close(interp_out[i + 1].position,
                           IF from_denser
                           THEN LerpPos(interp_cur[i + 1].position, V(i),
                                        interp_t)
                           ELSE LerpPos(V(i), interp_next[i + 1].position,
                                        interp_t))
                  /\ (/\ Len(interp_cur) = 2
                      /\ Len(interp_next) = 4
                      /\ interp_t = Rat(1, 2))
                        => Close(interp_out[i + 1].position,
                                 Mid(interp_next[i + 1].position,
                                     LerpPos(interp_cur[1].position,
                                             interp_cur[2].position,
                                             Rat(i, 3))))

Witness_C28 ==
    /\ InterpReturned
    /\ Len(interp_cur) = 2
    /\ Len(interp_next) = 4
    /\ interp_t = Rat(1, 2)
    /\ interp_cur[1].position # interp_cur[2].position
    /\ interp_next[2].position # interp_next[3].position
    /\ ~Close(interp_out[2].position, interp_next[2].position)
    /\ ~Close(interp_out[2].position, interp_cur[1].position)

\* the sparser side of the interpolate call under check has a single point
\* and the denser side has interior points
OnePointSparse ==
    /\ InterpUnequal
    /\ Min(Len(interp_cur), Len(interp_next)) = 1
    /\ Max(Len(interp_cur), Len(interp_next)) >= 3

\* no coordinate of the result of the interpolate call under check is NaN
OutputDefined ==
    \A j \in 1..Len(interp_out) :
        /\ ~IsNaN(interp_out[j].position[1])
        /\ ~IsNaN(interp_out[j].position[2])

\* C29: in unequal-length interpolation with a one-point sparser side (the
\* two bracket indices coincide) the local fraction is 0 and no division by
\* zero is performed, so that the virtual point is exactly the sparser
\* side's single point and every output coordinate is a well-defined number.
Claim_C29 ==
    (InterpReturned /\ OnePointSparse)
        => LET dense_len == Max(Len(interp_cur), Len(interp_next))
               sparse == IF Len(interp_cur) = 1 THEN interp_cur
                         ELSE interp_next
           IN  /\ \A i \in 1..(dense_len - 2) :
                     /\ local_t(norm_pos(i, dense_len),
                                nearest_idx(i, dense_len, 1),
                                nearest_idx2(i, dense_len, 1), 1) = Zero
                     /\ \A d \in 1..Len(virtual_divisors(i, dense_len, 1)) :
                           virtual_divisors(i, dense_len, 1)[d] # Zero
                     /\ virtual_point(i, dense_len, sparse)
                            = sparse[1].position
               /\ OutputDefined

\* C29, amended: with a one-point sparser side the local fraction is 0 and
\* the division of the fraction, (pos - pos1) / (pos2 - pos1), is not
\* performed; the normalized bracket positions pos1 and pos2 are still
\* computed, as 0.0 / 0.0 = NaN, but they reach only the comparison pos2 >
\* pos1, which is false.  The virtual point is exactly the sparser side's
\* single point and every output coordinate is a well-defined number.
Thm_C29 ==
    (InterpReturned /\ OnePointSparse)
        => LET dense_len == Max(Len(interp_cur), Len(interp_next))
               sparse == IF Len(interp_cur) = 1 THEN interp_cur
                         ELSE interp_next
           IN  /\ \A i \in 1..(dense_len - 2) :
                     /\ local_t(norm_pos(i, dense_len),
                                nearest_idx(i, dense_len, 1),
                                nearest_idx2(i, dense_len, 1), 1) = Zero
                     /\ ~bracket_open(nearest_idx(i, dense_len, 1),
                                      nearest_idx2(i, dense_len, 1), 1)
                     /\ virtual_divisors(i, dense_len, 1)
                            = <<F(dense_len - 1), Zero, Zero>>
                     /\ IsNaN(bracket_pos(nearest_idx(i, dense_len, 1), 1))
                     /\ virtual_point(i, dense_len, sparse)
                            = sparse[1].position
               /\ OutputDefined

Witness_C29 ==
    /\ InterpReturned
    /\ Len(interp_cur) = 1
    /\ Len(interp_next) = 4
    /\ interp_t = Rat(1, 2)
    /\ interp_cur[1].position # interp_next[2].position
    /\ interp_out[2].position
          = LerpPos(interp_cur[1].position, interp_next[2].position, interp_t)
    /\ OutputDefined

\* C30: if current or next is empty, interpolate returns the other sequence
\* unmodified (same length, positions and tags), for every t, without
\* entering the equal- or the unequal-length path.
Thm_C30 ==
    InterpReturned
        => /\ Len(interp_cur) = 0 => interp_out = interp_next
           /\ Len(interp_next) = 0 => interp_out = interp_cur

Witness_C30 ==
    /\ InterpReturned
    /\ Len(interp_next) = 0
    /\ Len(interp_cur) = 3
    /\ interp_cur[1].color = Blue
    /\ interp_cur[2].color = White
    /\ interp_t = Rat(1, 2)
    /\ interp_out = interp_cur

\* C31: levels are visited in order without skipping: every step() call
\* leaves step unchanged or advances it by exactly 1 modulo 7, however long
\* the time since the previous call, and an advance discards the progress in
\* excess of 1.0; a set_points call that does not reset leaves step alone.
\* A transition after which the last call is step() is a step() call, or the
\* passing of time after one.
Thm_C31 ==
    [][/\ last_call'.op = "step" =>
            /\ current_step' \in {current_step, (current_step + 1) % 7}
            /\ current_step' # current_step => animation_progress' = Zero
       /\ (last_call'.op = "set_points" /\ ~last_call'.reset) =>
            current_step' = current_step]_vars

Witness_C31 ==
    /\ AfterStep
    /\ last_call.prev_step = 6
    /\ current_step = 0
    /\ advances >= 7
    /\ animation_progress = Zero
    /\ current_points = original_points

\* C33: with at least 2 control points, after every step() call (also a
\* first call that arrives one level duration or more after construction)
\* current and next are both non-empty, and the returned frame holds at
\* least two curve points after the control points.
Claim_C33 ==
    AfterStep =>
        /\ Len(current_points) > 0
        /\ Len(next_points) > 0
        /\ Len(ret) >= Len(original_points) + 2

\* C32: liveness of the cycle: with at least 2 control points, if step()
\* keeps being called with an elapsed time of at least one tick and
\* set_points is never called with different points, then from every
\* reachable state each level 0..6 is reached again, and the animator
\* returns to step = 0 with current = original.
Thm_C32 ==
    Len(original_points) >= 2 =>
        /\ \A k \in 0..6 : []<>(current_step = k)
        /\ []<>(current_step = 0 /\ current_points = original_points)

Witness_C32 ==
    /\ AfterStep
    /\ advances = MaxAdvances
    /\ current_step = 1
    /\ Len(current_points) = 2 * Len(original_points)
    /\ since_last_update = 0

\* C34: in InputHandler, for every sequence of input frames, whenever
\* dragging_point is Some(idx) the index is below points.len() at every
\* place it is used to index points: no frame panics, Space pressed during
\* a drag with the button held included.
Claim_C34 ==
    /\ ~panicked
    /\ dragging_point.some => dragging_point.idx < Len(input_points)

\* C35: in InputHandler, is_animating implies that points is non-empty, in
\* every state reachable through handle_input and add_point.
Thm_C35 == is_animating => Len(input_points) > 0

Witness_C35 ==
    /\ is_animating
    /\ dragging_point.some
    /\ Len(input_points) >= 2
    /\ key_cooldown = KeyCooldown - 2
    /\ ~panicked

==========================================================================
